---- MODULE Spec2Model ----
(***************************************************************************)
(* hand2sign: the sign language classifier wrapper (SignLanguageModel) and *)
(* the React hook that drives it from camera frames (useHandDetection).    *)
(*                                                                         *)
(* Time is the value of Date.now() in milliseconds.  Confidences are       *)
(* integer percentages (0.3 is 30).  One macrotask of the JavaScript event *)
(* loop (with the microtasks it triggers) is one action.                   *)
(***************************************************************************)
EXTENDS Integers, Sequences, FiniteSets, TLC

\* ---- bounds of the model ------------------------------------------------
NumExtraCallers == 2      \* callers of loadModel besides initializeSystem
StartTime == 1000         \* Date.now() when the hook mounts
TickMs == 100             \* granularity of the clock
MaxTime == 1800           \* the clock stops here
MaxTimers == 3            \* settle timers armed in one run
MaxInflight == 2          \* predict calls in flight at once
MaxDirectPredicts == 1    \* predict calls made from outside the hook

\* ---- program constants --------------------------------------------------
ThrottleMs == 500         \* now - lastPredictionTime.current > 500
SettleMs == 100           \* setTimeout(..., 100)
ConfidenceFloor == 30     \* prediction.confidence > 0.3

HOOK == 0
Callers == 0..NumExtraCallers
LoadErrors == {"ModelFileNotFound", "FetchFailed", "LoadLayersFailed"}

VARIABLES
  \* SignLanguageModel
  model,            \* "null" or "LayersModel"
  isLoaded,
  loadingPromise,   \* "null", "pending", "fulfilled", "rejected"
  loadPc,           \* where doLoadModel is suspended: "none","fetch","loadLayers","done"
  loadError,        \* the error loadingPromise rejected with, "" if none
  loadsStarted,     \* number of doLoadModel invocations
  callerState,      \* per caller of loadModel: "idle","awaiting","resolved","rejected"
  callerError,      \* the error each caller's await threw, "" if none
  \* useHandDetection: state
  handResults, currentCharacter, confidence,
  hookIsModelLoaded, modelError, isInitializing,
  \* useHandDetection: refs
  modelRef, handsRef, cameraRef, predictionTimeoutRef,
  isProcessingRef, lastPredictionTime,
  \* useHandDetection: props and control position
  videoElement, isActive, initPc,
  \* environment: clock, timers of setTimeout, predict calls in flight
  now, timers, nextTimerId, inflight,
  sendInFlight,     \* a handsRef.send(...) has been called and has not settled
  \* history
  fired,            \* the timers whose callbacks ran, in order
  log,              \* the timers whose callbacks published an event, in order
  lastPublish,      \* the predict outcome behind the last published event
  lastPredict,      \* the last predict call made from outside the hook
  directCalls,      \* number of such calls
  uncaught,         \* an exception escaped a timer callback or the frame loop
  lastResults,      \* how the last handsRef.send ended: "hand", "noHand", "throws"
  \* App: the state fed by VideoFeed's onHandDetection
  appCurrentCharacter, appConfidence,
  \* one predict pipeline run on chosen inputs
  inLandmarks,      \* the landmarks argument
  inProbabilities,  \* what the classifier answers
  outAdjusted,      \* adjustedLandmarks of createHandVisualization, doubled
  outPrediction,    \* the settled promise of predict
  purePc            \* "idle", "input", "drawn", "done"

modelVars == <<model, isLoaded, loadingPromise, loadPc, loadError, loadsStarted,
               callerState, callerError>>
stateVars == <<handResults, currentCharacter, confidence,
               hookIsModelLoaded, modelError, isInitializing>>
refVars == <<modelRef, handsRef, cameraRef, predictionTimeoutRef,
             isProcessingRef, lastPredictionTime>>
propVars == <<videoElement, isActive, initPc>>
envVars == <<now, timers, nextTimerId, inflight, sendInFlight>>
histVars == <<fired, log, lastPublish, lastPredict, directCalls, uncaught, lastResults>>
appVars == <<appCurrentCharacter, appConfidence>>
pureVars == <<inLandmarks, inProbabilities, outAdjusted, outPrediction, purePc>>
vars == <<modelVars, stateVars, refVars, propVars, envVars, histVars, appVars, pureVars>>

\* ---- SignLanguageModel: pure helpers ------------------------------------
\* A landmark array is a sequence of records [x, y, z]; the code's pts[i] is
\* pts[i + 1] here.  pts[i]?.x is undefined when the array is too short, and
\* every comparison with undefined is false.
Has(pts, i) == i + 1 <= Len(pts)
LtX(pts, i, j) == Has(pts, i) /\ Has(pts, j) /\ pts[i + 1].x < pts[j + 1].x
GtX(pts, i, j) == Has(pts, i) /\ Has(pts, j) /\ pts[i + 1].x > pts[j + 1].x
LtY(pts, i, j) == Has(pts, i) /\ Has(pts, j) /\ pts[i + 1].y < pts[j + 1].y
GtY(pts, i, j) == Has(pts, i) /\ Has(pts, j) /\ pts[i + 1].y > pts[j + 1].y

\* distance(point1, point2) > d, on integer coordinates
distanceGt(point1, point2, d) ==
  (point1.x - point2.x) * (point1.x - point2.x)
    + (point1.y - point2.y) * (point1.y - point2.y) > d * d

\* distance(pts[i], pts[j]) reads .x of undefined when a point is missing
distanceThrows(pts, i, j) == ~(Has(pts, i) /\ Has(pts, j))

MaxOf(s) == CHOOSE m \in {s[k] : k \in 1..Len(s)} : \A k \in 1..Len(s) : s[k] <= m
\* the last index that holds the maximum
indexOfMax_last(s) == (CHOOSE k \in 1..Len(s) : s[k] = MaxOf(s) /\ \A j \in (k + 1)..Len(s) : s[j] # MaxOf(s)) - 1

\* probs.indexOf(Math.max(...probs)), 0-based
indexOfMax(s) == (CHOOSE k \in 1..Len(s) : s[k] = MaxOf(s) /\ \A j \in 1..(k - 1) : s[j] # MaxOf(s)) - 1

InPairs(pl, conds) == \E c \in conds : pl[1] = c[1] /\ pl[2] = c[2]

aemnstConditions == {<<5, 2>>, <<5, 3>>, <<3, 5>>, <<3, 6>>, <<3, 0>>, <<3, 2>>, <<6, 4>>,
                     <<6, 1>>, <<6, 2>>, <<6, 6>>, <<6, 7>>, <<6, 0>>, <<6, 5>>}
osConditions == {<<2, 2>>, <<2, 1>>}
c0Conditions == {<<0, 0>>, <<0, 6>>, <<0, 2>>, <<0, 5>>, <<0, 1>>, <<0, 7>>, <<5, 2>>,
                 <<7, 6>>, <<7, 1>>}

\* the fist rule with comparisons that admit equality
aemnstRule_nonStrict(pts) ==
  ~GtY(pts, 6, 8) /\ ~GtY(pts, 10, 12) /\ ~GtY(pts, 14, 16) /\ ~GtY(pts, 18, 20)

aemnstRule(pts) == LtY(pts, 6, 8) /\ LtY(pts, 10, 12) /\ LtY(pts, 14, 16) /\ LtY(pts, 18, 20)
osRule(pts) == LtX(pts, 5, 4)
c0Rule(pts) == GtX(pts, 0, 8) /\ GtX(pts, 0, 4) /\ GtX(pts, 0, 12)
               /\ GtX(pts, 0, 16) /\ GtX(pts, 0, 20) /\ GtX(pts, 5, 4)

\* the same three ifs with the wrist rule applied first
applyDisambiguationRules_c0First(ch1, ch2, pl, pts) ==
  LET c == IF InPairs(pl, c0Conditions) /\ c0Rule(pts) THEN 2 ELSE ch1
      a == IF InPairs(pl, aemnstConditions) /\ aemnstRule(pts) THEN 0 ELSE c
      b == IF InPairs(pl, osConditions) /\ osRule(pts) THEN 0 ELSE a
  IN b

\* rules of which the first that matches decides
applyDisambiguationRules_firstWins(ch1, ch2, pl, pts) ==
  IF InPairs(pl, aemnstConditions) /\ aemnstRule(pts) THEN 0
  ELSE IF InPairs(pl, osConditions) /\ osRule(pts) THEN 0
  ELSE IF InPairs(pl, c0Conditions) /\ c0Rule(pts) THEN 2
  ELSE ch1

\* three independent ifs on the original pair pl, each assigning ch1
applyDisambiguationRules(ch1, ch2, pl, pts) ==
  LET a == IF InPairs(pl, aemnstConditions) /\ aemnstRule(pts) THEN 0 ELSE ch1
      b == IF InPairs(pl, osConditions) /\ osRule(pts) THEN 0 ELSE a
      c == IF InPairs(pl, c0Conditions) /\ c0Rule(pts) THEN 2 ELSE b
  IN c

group0Character(pts) ==
  LET c0 == "S"
      c1 == IF LtX(pts, 4, 6) /\ LtX(pts, 4, 10) /\ LtX(pts, 4, 14) /\ LtX(pts, 4, 18)
            THEN "A" ELSE c0
      c2 == IF GtX(pts, 4, 6) /\ LtX(pts, 4, 10) /\ LtX(pts, 4, 14) /\ LtX(pts, 4, 18)
               /\ LtY(pts, 4, 14) /\ LtY(pts, 4, 18)
            THEN "T" ELSE c1
      c3 == IF GtY(pts, 4, 8) /\ GtY(pts, 4, 12) /\ GtY(pts, 4, 16) /\ GtY(pts, 4, 20)
            THEN "E" ELSE c2
      c4 == IF GtX(pts, 4, 6) /\ GtX(pts, 4, 10) /\ GtX(pts, 4, 14) /\ LtY(pts, 4, 18)
            THEN "M" ELSE c3
      c5 == IF GtX(pts, 4, 6) /\ GtX(pts, 4, 10) /\ LtY(pts, 4, 18) /\ LtY(pts, 4, 14)
            THEN "N" ELSE c4
  IN c5

\* a group 1 without its default letter
group1Character_noDefault(pts) ==
  IF GtY(pts, 6, 8) /\ GtY(pts, 10, 12) /\ GtY(pts, 14, 16) /\ GtY(pts, 18, 20) THEN "B"
  ELSE IF GtY(pts, 6, 8) /\ LtY(pts, 10, 12) /\ LtY(pts, 14, 16) /\ LtY(pts, 18, 20) THEN "D"
  ELSE IF LtY(pts, 6, 8) /\ GtY(pts, 10, 12) /\ GtY(pts, 14, 16) /\ GtY(pts, 18, 20) THEN "F"
  ELSE IF LtY(pts, 6, 8) /\ LtY(pts, 10, 12) /\ LtY(pts, 14, 16) /\ GtY(pts, 18, 20) THEN "I"
  ELSE ""

group1Character(pts) ==
  IF GtY(pts, 6, 8) /\ GtY(pts, 10, 12) /\ GtY(pts, 14, 16) /\ GtY(pts, 18, 20) THEN "B"
  ELSE IF GtY(pts, 6, 8) /\ LtY(pts, 10, 12) /\ LtY(pts, 14, 16) /\ LtY(pts, 18, 20) THEN "D"
  ELSE IF LtY(pts, 6, 8) /\ GtY(pts, 10, 12) /\ GtY(pts, 14, 16) /\ GtY(pts, 18, 20) THEN "F"
  ELSE IF LtY(pts, 6, 8) /\ LtY(pts, 10, 12) /\ LtY(pts, 14, 16) /\ GtY(pts, 18, 20) THEN "I"
  ELSE "B"

\* the groups whose branch calls distance() throw on a missing point
indexToCharacterThrows(index, pts) ==
  \/ index = 2 /\ distanceThrows(pts, 12, 4)
  \/ index = 3 /\ distanceThrows(pts, 8, 12)
  \/ index = 7 /\ distanceThrows(pts, 8, 4)

indexToCharacter(index, pts) ==
  IF index = 0 THEN group0Character(pts)
  ELSE IF index = 1 THEN group1Character(pts)
  ELSE IF index = 2 THEN (IF distanceGt(pts[13], pts[5], 42) THEN "C" ELSE "O")
  ELSE IF index = 3 THEN (IF distanceGt(pts[9], pts[13], 72) THEN "G" ELSE "H")
  ELSE IF index = 4 THEN "L"
  ELSE IF index = 5 THEN
    (IF GtX(pts, 4, 12) /\ GtX(pts, 4, 16) /\ GtX(pts, 4, 20)
     THEN (IF LtY(pts, 8, 5) THEN "Z" ELSE "Q")
     ELSE "P")
  ELSE IF index = 6 THEN "X"
  ELSE IF index = 7 THEN (IF distanceGt(pts[9], pts[5], 42) THEN "Y" ELSE "J")
  ELSE ""

\* a top-2 whose second index is searched among the other entries only
topTwo_distinct(probabilities) ==
  LET ch1Index == indexOfMax(probabilities)
      others == {k \in 1..Len(probabilities) : k # ch1Index + 1}
      best == CHOOSE k \in others :
                /\ \A j \in others : probabilities[j] <= probabilities[k]
                /\ \A j \in others : j < k => probabilities[j] < probabilities[k]
  IN <<ch1Index, best - 1>>

\* the group chosen after the override rules, from the top-2 of probabilities
topTwo(probabilities) ==
  LET ch1Index == indexOfMax(probabilities)
      probs == [probabilities EXCEPT ![ch1Index + 1] = 0]
      ch2Index == indexOfMax(probs)
  IN <<ch1Index, ch2Index>>

\* the caller's array after postProcessPrediction: probs[ch1Index] = 0 is
\* written to the copy made by Array.from(probabilities)
probabilitiesAfterPostProcess(probabilities) == probabilities

postProcessThrows(probabilities, pts) ==
  LET pl == topTwo(probabilities)
  IN indexToCharacterThrows(applyDisambiguationRules(pl[1], pl[2], pl, pts), pts)

\* a post-processing that reports the probability of the group it ends with
postProcessPrediction_finalGroup(probabilities, pts) ==
  LET pl == topTwo(probabilities)
      ch1 == applyDisambiguationRules(pl[1], pl[2], pl, pts)
  IN [character |-> indexToCharacter(ch1, pts), confidence |-> probabilities[ch1 + 1]]

postProcessPrediction(probabilities, pts) ==
  LET pl == topTwo(probabilities)
      ch1 == applyDisambiguationRules(pl[1], pl[2], pl, pts)
  IN [character |-> indexToCharacter(ch1, pts), confidence |-> probabilities[pl[1] + 1]]

EmptyResult == [character |-> "", confidence |-> 0]


isModelLoaded == isLoaded /\ model # "null"

\* a predict without the 'Model not loaded' guard
predict_unguarded(loaded, classifierThrows, probabilities, pts) ==
  IF classifierThrows \/ postProcessThrows(probabilities, pts)
  THEN [kind |-> "resolved", error |-> "", failed |-> TRUE, result |-> EmptyResult]
  ELSE [kind |-> "resolved", error |-> "", failed |-> FALSE,
        result |-> postProcessPrediction(probabilities, pts)]

\* predict(landmarks): the promise it returns.  loaded is the guard
\* this.isModelLoaded() && this.model; classifierThrows stands for any
\* exception inside the try block (canvas, tensor, model.predict, data());
\* failed tells that the catch block produced the result.
predict(loaded, classifierThrows, probabilities, pts) ==
  IF ~loaded
  THEN [kind |-> "rejected", error |-> "Model not loaded", failed |-> FALSE,
        result |-> EmptyResult]
  ELSE IF classifierThrows \/ postProcessThrows(probabilities, pts)
  THEN [kind |-> "resolved", error |-> "", failed |-> TRUE, result |-> EmptyResult]
  ELSE [kind |-> "resolved", error |-> "", failed |-> FALSE,
        result |-> postProcessPrediction(probabilities, pts)]

NoOutcome == [kind |-> "", error |-> "", failed |-> FALSE, result |-> EmptyResult]

\* ---- frames delivered by MediaPipe --------------------------------------
\* results.multiHandLandmarks[0]: normalized coordinates, here in sixteenths
\* of the frame, as <<x, y>> per landmark.
OpenHandXY ==
  << <<8, 14>>, <<6, 13>>, <<5, 12>>, <<4, 11>>, <<3, 10>>,
     <<6, 9>>, <<6, 7>>, <<6, 6>>, <<6, 5>>,
     <<8, 9>>, <<8, 7>>, <<8, 5>>, <<8, 4>>,
     <<10, 9>>, <<10, 7>>, <<10, 6>>, <<10, 5>>,
     <<12, 10>>, <<12, 8>>, <<12, 7>>, <<12, 6>> >>
FistXY ==
  << <<8, 14>>, <<6, 13>>, <<5, 12>>, <<5, 11>>, <<7, 10>>,
     <<6, 9>>, <<6, 7>>, <<6, 8>>, <<6, 9>>,
     <<8, 9>>, <<8, 7>>, <<8, 8>>, <<8, 9>>,
     <<10, 9>>, <<10, 7>>, <<10, 8>>, <<10, 9>>,
     <<12, 10>>, <<12, 8>>, <<12, 9>>, <<12, 10>> >>

NoHand == 0
FrameIds == {1, 2}
multiHandLandmarks(id) ==
  LET xy == IF id = 1 THEN OpenHandXY ELSE FistXY
  IN [k \in 1..Len(xy) |-> [x |-> xy[k][1], y |-> xy[k][2], z |-> 0]]

\* landmarks.map(l => ({x: l.x * 640, y: l.y * 480, z: l.z || 0}))
handLandmarks(id) ==
  LET landmarks == multiHandLandmarks(id)
  IN [k \in 1..Len(landmarks) |->
        [x |-> (landmarks[k].x * 640) \div 16,
         y |-> (landmarks[k].y * 480) \div 16,
         z |-> landmarks[k].z]]

\* what the classifier may answer: 8 probabilities in percent
ProbVectors ==
  { <<90, 4, 2, 1, 1, 1, 1, 0>>,
    <<30, 30, 10, 10, 5, 5, 5, 5>>,
    <<20, 31, 20, 9, 5, 5, 5, 5>>,
    <<10, 20, 29, 20, 6, 5, 5, 5>> }


\* ---- initial state: the hook has rendered once, no effect has run yet ----
InitModel ==
  /\ model = "null" /\ isLoaded = FALSE /\ loadingPromise = "null"
  /\ loadPc = "none" /\ loadError = "" /\ loadsStarted = 0

InitHook ==
  /\ appCurrentCharacter = "" /\ appConfidence = 0
  /\ callerState = [c \in Callers |-> "idle"]
  /\ callerError = [c \in Callers |-> ""]
  /\ handResults = NoHand /\ currentCharacter = "" /\ confidence = 0
  /\ hookIsModelLoaded = FALSE /\ modelError = "" /\ isInitializing = TRUE
  /\ modelRef = FALSE /\ handsRef = FALSE /\ cameraRef = FALSE
  /\ predictionTimeoutRef = 0 /\ isProcessingRef = FALSE /\ lastPredictionTime = 0
  /\ videoElement = FALSE /\ isActive = FALSE /\ initPc = "start"
  /\ now = StartTime /\ timers = {} /\ nextTimerId = 1 /\ inflight = {}
  /\ sendInFlight = FALSE
  /\ fired = <<>> /\ log = <<>> /\ uncaught = FALSE /\ lastResults = "none"
  /\ lastPublish = [id |-> 0, lm |-> NoHand, outcome |-> NoOutcome]
  /\ lastPredict = [called |-> FALSE, promise |-> "null", kind |-> "", error |-> "",
                    invoked |-> FALSE]
  /\ directCalls = 0

\* no predict pipeline is run on chosen inputs
PipelineIdle ==
  /\ inLandmarks = <<>> /\ inProbabilities = <<>> /\ outAdjusted = <<>>
  /\ outPrediction = NoOutcome /\ purePc = "idle"

Init == InitModel /\ InitHook /\ PipelineIdle

\* ---- SignLanguageModel.loadModel / doLoadModel --------------------------
\* a loadModel that never reuses the promise
loadModelMemoized_never(promise) == FALSE

\* loadModel returns the memoized promise when there is one
loadModelMemoized(promise) == promise # "null"

\* the synchronous part of loadModel() called by caller c: either the memoized
\* promise is returned, or doLoadModel runs up to its first await (the fetch)
LoadModelCall(c) ==
  /\ callerState' = [callerState EXCEPT ![c] = "awaiting"]
  /\ IF loadModelMemoized(loadingPromise)
     THEN UNCHANGED <<loadingPromise, loadPc, loadsStarted>>
     ELSE /\ loadingPromise' = "pending"
          /\ loadPc' = "fetch"
          /\ loadsStarted' = loadsStarted + 1
  /\ UNCHANGED <<model, isLoaded, loadError, callerError>>

\* some other holder of the model object calls loadModel()
LoadModel(c) ==
  /\ c # HOOK
  /\ callerState[c] = "idle"
  /\ LoadModelCall(c)
  /\ UNCHANGED <<stateVars, refVars, propVars, envVars, histVars>>
  /\ UNCHANGED pureVars
  /\ UNCHANGED appVars

\* catch (error) { this.isLoaded = false; throw error; }
RejectLoad(e) ==
  /\ isLoaded' = FALSE
  /\ loadingPromise' = "rejected"
  /\ loadError' = e
  /\ loadPc' = "done"
  /\ UNCHANGED model

\* await fetch(modelUrl) settles
FetchSettle ==
  /\ loadPc = "fetch"
  /\ \E outcome \in {"ok", "notOk", "throws"} :
       CASE outcome = "ok" ->
              /\ loadPc' = "loadLayers"
              /\ UNCHANGED <<model, isLoaded, loadingPromise, loadError>>
         [] outcome = "notOk" -> RejectLoad("ModelFileNotFound")
         [] outcome = "throws" -> RejectLoad("FetchFailed")
  /\ UNCHANGED <<loadsStarted, callerState, callerError>>
  /\ UNCHANGED <<stateVars, refVars, propVars, envVars, histVars>>
  /\ UNCHANGED pureVars
  /\ UNCHANGED appVars

\* await tf.loadLayersModel(modelUrl) settles
LoadLayersSettle ==
  /\ loadPc = "loadLayers"
  /\ \E ok \in BOOLEAN :
       IF ok
       THEN /\ model' = "LayersModel"
            /\ isLoaded' = TRUE
            /\ loadingPromise' = "fulfilled"
            /\ loadPc' = "done"
            /\ UNCHANGED loadError
       ELSE RejectLoad("LoadLayersFailed")
  /\ UNCHANGED <<loadsStarted, callerState, callerError>>
  /\ UNCHANGED <<stateVars, refVars, propVars, envVars, histVars>>
  /\ UNCHANGED pureVars
  /\ UNCHANGED appVars

\* the await of a caller other than the hook resumes
CallerResume(c) ==
  /\ c # HOOK
  /\ callerState[c] = "awaiting"
  /\ loadingPromise \in {"fulfilled", "rejected"}
  /\ callerState' = [callerState EXCEPT
                       ![c] = IF loadingPromise = "fulfilled" THEN "resolved" ELSE "rejected"]
  /\ callerError' = [callerError EXCEPT ![c] = loadError]
  /\ UNCHANGED <<model, isLoaded, loadingPromise, loadPc, loadError, loadsStarted>>
  /\ UNCHANGED <<stateVars, refVars, propVars, envVars, histVars>>
  /\ UNCHANGED pureVars
  /\ UNCHANGED appVars


\* ---- useHandDetection: camera start/stop effect -------------------------
\* the effect on [videoElement, isActive, isInitializing], run with the new
\* values; cameraOk = FALSE stands for new Camera(...) throwing in startCamera
startsCamera(video, hands, active, initializing) ==
  video /\ hands /\ active /\ ~initializing

cameraEffect(video, hands, active, initializing, camera, cameraOk) ==
  IF startsCamera(video, hands, active, initializing)
  THEN (IF cameraOk THEN TRUE ELSE camera)
  ELSE IF camera /\ ~active
  THEN FALSE          \* stopCamera: cameraRef.current.stop(); cameraRef.current = null
  ELSE camera

cameraEffectError(video, hands, active, initializing, cameraOk, error) ==
  IF startsCamera(video, hands, active, initializing) /\ ~cameraOk
  THEN "Camera error"
  ELSE error

\* ---- useHandDetection: initializeSystem ---------------------------------
\* an initializeSystem whose catch block forgets setModelError
modelErrorAfterLoad_silent(promise) == ""

\* setModelError('') after the await of loadModel(), setModelError(`Model
\* loading failed: ...`) in the catch block around it
modelErrorAfterLoad(promise) ==
  IF promise = "fulfilled" THEN "" ELSE "Model loading failed"

\* up to the await of loadModel()
InitializeSystem ==
  /\ initPc = "start"
  /\ isInitializing' = TRUE
  /\ modelRef' = TRUE
  /\ LoadModelCall(HOOK)
  /\ initPc' = "awaitLoad"
  /\ UNCHANGED <<handResults, currentCharacter, confidence, hookIsModelLoaded, modelError>>
  /\ UNCHANGED <<handsRef, cameraRef, predictionTimeoutRef, isProcessingRef, lastPredictionTime>>
  /\ UNCHANGED <<videoElement, isActive, envVars, histVars>>
  /\ UNCHANGED pureVars
  /\ UNCHANGED appVars

\* from the await of loadModel() to the end of initializeSystem, and the
\* camera effect that the change of isInitializing triggers
InitializeResume ==
  /\ initPc = "awaitLoad"
  /\ loadingPromise \in {"fulfilled", "rejected"}
  /\ callerState' = [callerState EXCEPT
                       ![HOOK] = IF loadingPromise = "fulfilled" THEN "resolved" ELSE "rejected"]
  /\ callerError' = [callerError EXCEPT ![HOOK] = loadError]
  /\ hookIsModelLoaded' = (loadingPromise = "fulfilled")
  /\ \E handsOk \in BOOLEAN, cameraOk \in BOOLEAN :
       LET afterLoad == modelErrorAfterLoad(loadingPromise)
           afterHands == IF handsOk THEN afterLoad ELSE "Initialization failed"
       IN /\ handsRef' = handsOk
          /\ isInitializing' = FALSE
          /\ cameraRef' = cameraEffect(videoElement, handsOk, isActive, FALSE, cameraRef, cameraOk)
          /\ modelError' = cameraEffectError(videoElement, handsOk, isActive, FALSE, cameraOk,
                                             afterHands)
  /\ initPc' = "done"
  /\ UNCHANGED <<model, isLoaded, loadingPromise, loadPc, loadError, loadsStarted>>
  /\ UNCHANGED <<handResults, currentCharacter, confidence>>
  /\ UNCHANGED <<modelRef, predictionTimeoutRef, isProcessingRef, lastPredictionTime>>
  /\ UNCHANGED <<videoElement, isActive, envVars, histVars>>
  /\ UNCHANGED pureVars
  /\ UNCHANGED appVars

\* the parent toggles isRecording; the camera effect runs
SetActive ==
  /\ isActive' = ~isActive
  /\ \E cameraOk \in BOOLEAN :
       /\ cameraRef' = cameraEffect(videoElement, handsRef, ~isActive, isInitializing,
                                    cameraRef, cameraOk)
       /\ modelError' = cameraEffectError(videoElement, handsRef, ~isActive, isInitializing,
                                          cameraOk, modelError)
  /\ UNCHANGED <<modelVars, handResults, currentCharacter, confidence, hookIsModelLoaded,
                 isInitializing>>
  /\ UNCHANGED <<modelRef, handsRef, predictionTimeoutRef, isProcessingRef, lastPredictionTime>>
  /\ UNCHANGED <<videoElement, initPc, envVars, histVars>>
  /\ UNCHANGED pureVars
  /\ UNCHANGED appVars

\* the video element is mounted (videoRef.current becomes non-null)
VideoMount ==
  /\ ~videoElement
  /\ videoElement' = TRUE
  /\ \E cameraOk \in BOOLEAN :
       /\ cameraRef' = cameraEffect(TRUE, handsRef, isActive, isInitializing, cameraRef, cameraOk)
       /\ modelError' = cameraEffectError(TRUE, handsRef, isActive, isInitializing, cameraOk,
                                          modelError)
  /\ UNCHANGED <<modelVars, handResults, currentCharacter, confidence, hookIsModelLoaded,
                 isInitializing>>
  /\ UNCHANGED <<modelRef, handsRef, predictionTimeoutRef, isProcessingRef, lastPredictionTime>>
  /\ UNCHANGED <<isActive, initPc, envVars, histVars>>
  /\ UNCHANGED pureVars
  /\ UNCHANGED appVars


\* ---- VideoFeed and App: what becomes of the hook's state ----------------
\* VideoFeed's effect: if (currentCharacter && confidence > 0)
\* onHandDetection(currentCharacter, confidence, ...), and App's
\* handleHandDetection: setCurrentCharacter(character); setConfidence(conf)
onHandDetectionEffect(character, conf, appCharacter, appConf) ==
  IF character # "" /\ conf > 0
  THEN [character |-> character, confidence |-> conf]
  ELSE [character |-> appCharacter, confidence |-> appConf]

\* the effect runs after the render that follows a change of the hook's state
VideoFeedEffect ==
  LET app == onHandDetectionEffect(currentCharacter', confidence',
                                   appCurrentCharacter, appConfidence)
  IN /\ appCurrentCharacter' = app.character
     /\ appConfidence' = app.confidence

\* ---- useHandDetection: frames -------------------------------------------
\* Camera.onFrame: the re-entrancy guard, then handsRef.current.send(...)
OnFrame ==
  /\ cameraRef
  /\ handsRef /\ ~isProcessingRef
  /\ isProcessingRef' = TRUE
  /\ sendInFlight' = TRUE
  /\ UNCHANGED <<modelVars, stateVars, propVars, now, timers, nextTimerId, inflight>>
  /\ UNCHANGED <<modelRef, handsRef, cameraRef, predictionTimeoutRef, lastPredictionTime>>
  /\ UNCHANGED <<histVars>>
  /\ UNCHANGED pureVars
  /\ UNCHANGED appVars

\* a clearTimeout that cancels nothing
clearTimeout_noop(pending, id) == pending

\* clearTimeout(id): the timer with that id, if still pending, is removed
clearTimeout(pending, id) == {t \in pending : t.id # id}

\* no throttle at all
throttlePasses_always(time, last) == TRUE

\* a throttle that lets a frame pass at exactly 500 ms
throttlePasses_inclusive(time, last) == time - last >= ThrottleMs

\* now - lastPredictionTime.current > 500
throttlePasses(time, last) == time - last > ThrottleMs

\* onResults, a hand was detected
onResultsHand(h) ==
  /\ handResults' = h
  /\ IF throttlePasses(now, lastPredictionTime)
     THEN /\ nextTimerId <= MaxTimers
          /\ lastPredictionTime' = now
          /\ timers' = clearTimeout(timers, predictionTimeoutRef)
                         \cup {[id |-> nextTimerId, due |-> now + SettleMs, lm |-> h]}
          /\ predictionTimeoutRef' = nextTimerId
          /\ nextTimerId' = nextTimerId + 1
     ELSE UNCHANGED <<lastPredictionTime, timers, predictionTimeoutRef, nextTimerId>>
  /\ UNCHANGED <<currentCharacter, confidence>>

\* onResults, no hand was detected
onResultsNoHand ==
  /\ handResults' = NoHand
  /\ currentCharacter' = ""
  /\ confidence' = 0
  /\ timers' = clearTimeout(timers, predictionTimeoutRef)
  /\ UNCHANGED <<lastPredictionTime, predictionTimeoutRef, nextTimerId>>

\* an onFrame whose guard is released only when send resolves
guardAfterSend_noFinally(outcome) == outcome = "throws"

\* finally { isProcessingRef.current = false }, whatever send did
guardAfterSend(outcome) == FALSE

\* handsRef.current.send settles: MediaPipe has called onResults (or send
\* threw), and the finally block releases the guard
SendSettle ==
  /\ sendInFlight
  /\ \E r \in {"hand", "noHand", "throws"} :
       /\ CASE r = "hand" -> \E h \in FrameIds : onResultsHand(h)
            [] r = "noHand" -> onResultsNoHand
            [] r = "throws" ->
                 UNCHANGED <<handResults, currentCharacter, confidence, lastPredictionTime,
                             timers, predictionTimeoutRef, nextTimerId>>
       /\ lastResults' = r
       /\ isProcessingRef' = guardAfterSend(r)
  /\ sendInFlight' = FALSE
  /\ UNCHANGED <<modelVars, hookIsModelLoaded, modelError, isInitializing>>
  /\ UNCHANGED <<modelRef, handsRef, cameraRef, propVars, now, inflight>>
  /\ UNCHANGED <<fired, log, lastPublish, lastPredict, directCalls, uncaught>>
  /\ UNCHANGED pureVars
  /\ VideoFeedEffect

\* ---- useHandDetection: the settle-timer callback ------------------------
\* a callback that only checks that the model object exists
callbackGuard_refOnly(ref, loaded) == ref

\* if (modelRef.current && modelRef.current.isModelLoaded())
callbackGuard(ref, loaded) == ref /\ loaded

\* a callback without the confidence floor
timerCallback_noFloor(outcome, character, conf) ==
  IF outcome.kind = "resolved" /\ outcome.result.character # ""
  THEN [character |-> outcome.result.character,
        confidence |-> outcome.result.confidence, escaped |-> FALSE]
  ELSE [character |-> "", confidence |-> 0, escaped |-> FALSE]

\* a callback that publishes letters only and never clears the state
timerCallback_neverClears(outcome, character, conf) ==
  IF outcome.kind = "resolved" /\ outcome.result.character # ""
     /\ outcome.result.confidence > ConfidenceFloor
  THEN [character |-> outcome.result.character,
        confidence |-> outcome.result.confidence, escaped |-> FALSE]
  ELSE [character |-> character, confidence |-> conf, escaped |-> FALSE]

\* what the callback does with the settled promise of predict when the state
\* holds (character, conf): the new currentCharacter and confidence, and
\* whether an exception leaves the callback
timerCallback(outcome, character, conf) ==
  IF outcome.kind = "resolved"
  THEN IF outcome.result.character # "" /\ outcome.result.confidence > ConfidenceFloor
       THEN [character |-> outcome.result.character,
             confidence |-> outcome.result.confidence, escaped |-> FALSE]
       ELSE [character |-> "", confidence |-> 0, escaped |-> FALSE]
  ELSE [character |-> "", confidence |-> 0, escaped |-> FALSE]

Publish(p, outcome) ==
  LET cb == timerCallback(outcome, currentCharacter, confidence)
  IN /\ currentCharacter' = cb.character
     /\ confidence' = cb.confidence
     /\ uncaught' = (uncaught \/ cb.escaped)
     /\ log' = Append(log, p.id)
     /\ lastPublish' = [id |-> p.id, lm |-> p.lm, outcome |-> outcome]

\* a settle timer fires: the callback runs up to the await of predict
TimerFire(t) ==
  /\ t \in timers
  /\ now >= t.due
  /\ timers' = timers \ {t}
  /\ fired' = Append(fired, t.id)
  /\ LET p == [owner |-> "timer", id |-> t.id, lm |-> t.lm]
     IN IF callbackGuard(modelRef, isModelLoaded)
        THEN IF predict(isModelLoaded /\ model # "null", FALSE, <<0, 0, 0, 0, 0, 0, 0, 0>>,
                        handLandmarks(t.lm)).kind = "rejected"
             THEN /\ Publish(p, predict(isModelLoaded /\ model # "null", FALSE, <<0, 0, 0, 0, 0, 0, 0, 0>>,
                                        handLandmarks(t.lm)))
                  /\ UNCHANGED inflight
             ELSE /\ Cardinality(inflight) < MaxInflight
                  /\ inflight' = inflight \cup {p}
                  /\ UNCHANGED <<currentCharacter, confidence, uncaught, log, lastPublish>>
        ELSE UNCHANGED <<inflight, currentCharacter, confidence, uncaught, log, lastPublish>>
  /\ UNCHANGED <<modelVars, handResults, hookIsModelLoaded, modelError, isInitializing>>
  /\ UNCHANGED <<refVars, propVars, now, nextTimerId, sendInFlight>>
  /\ UNCHANGED <<lastPredict, directCalls, lastResults>>
  /\ UNCHANGED pureVars
  /\ VideoFeedEffect

\* a predict call settles; for a call made by a timer callback the callback
\* resumes in the same turn of the event loop
PredictSettle(p) ==
  /\ p \in inflight
  /\ inflight' = inflight \ {p}
  /\ \E classifierThrows \in BOOLEAN, probabilities \in ProbVectors :
       LET outcome == predict(TRUE, classifierThrows, probabilities, handLandmarks(p.lm))
       IN IF p.owner = "timer"
          THEN Publish(p, outcome)
          ELSE UNCHANGED <<currentCharacter, confidence, uncaught, log, lastPublish>>
  /\ UNCHANGED <<modelVars, handResults, hookIsModelLoaded, modelError, isInitializing>>
  /\ UNCHANGED <<refVars, propVars, now, timers, nextTimerId, sendInFlight>>
  /\ UNCHANGED <<fired, lastPredict, directCalls, lastResults>>
  /\ UNCHANGED pureVars
  /\ VideoFeedEffect

\* predict called on the model object from outside the hook
DirectPredict ==
  /\ directCalls < MaxDirectPredicts
  /\ directCalls' = directCalls + 1
  /\ \E h \in FrameIds :
       LET o == predict(isModelLoaded /\ model # "null", FALSE, <<0, 0, 0, 0, 0, 0, 0, 0>>, handLandmarks(h))
       IN /\ lastPredict' = [called |-> TRUE, promise |-> loadingPromise, kind |-> o.kind,
                             error |-> o.error, invoked |-> (o.kind # "rejected")]
          /\ IF o.kind = "rejected"
             THEN UNCHANGED inflight
             ELSE /\ Cardinality(inflight) < MaxInflight
                  /\ inflight' = inflight \cup {[owner |-> "direct", id |-> 0, lm |-> h]}
  /\ UNCHANGED <<modelVars, stateVars, refVars, propVars, now, timers, nextTimerId>>
  /\ UNCHANGED <<sendInFlight, fired, log, lastPublish, uncaught, lastResults>>
  /\ UNCHANGED pureVars
  /\ UNCHANGED appVars

\* ---- the clock ----------------------------------------------------------
Tick ==
  /\ now + TickMs <= MaxTime
  /\ now' = now + TickMs
  /\ UNCHANGED <<modelVars, stateVars, refVars, propVars, timers, nextTimerId, inflight>>
  /\ UNCHANGED <<sendInFlight, histVars>>
  /\ UNCHANGED pureVars
  /\ UNCHANGED appVars

\* the hook in its component: initialization, camera, frames, timers
Next ==
  \/ InitializeSystem
  \/ InitializeResume
  \/ FetchSettle
  \/ LoadLayersSettle
  \/ SetActive
  \/ VideoMount
  \/ OnFrame
  \/ SendSettle
  \/ \E t \in timers : TimerFire(t)
  \/ \E p \in inflight : PredictSettle(p)
  \/ Tick

Spec == Init /\ [][Next]_vars

\* the continuation of an await runs once its promise has settled
FairSpec == Spec /\ WF_vars(InitializeResume)

\* the promise of handsRef.send settles: MediaPipe answers every frame it
\* was sent, or throws
FairFrames == Spec /\ WF_vars(SendSettle)

\* the model object by itself, shared with other callers of loadModel and
\* predict: its fields hold their initializers (null, false, null) until the
\* first loadModel, and callers may call before, while or after the hook does
NextModel ==
  \/ InitializeSystem
  \/ InitializeResume
  \/ \E c \in Callers : LoadModel(c)
  \/ FetchSettle
  \/ LoadLayersSettle
  \/ \E c \in Callers : CallerResume(c)
  \/ DirectPredict
  \/ \E p \in inflight : PredictSettle(p)

SpecModel == Init /\ [][NextModel]_vars

\* ---- predict's pipeline, run once on chosen inputs ----------------------
\* createHandVisualization(landmarks, width = 400, height = 400)
CanvasWidth == 400
CanvasHeight == 400

MinOf(s) == CHOOSE m \in {s[k] : k \in 1..Len(s)} : \A k \in 1..Len(s) : m <= s[k]

\* a visualization that clamps the adjusted landmarks to the canvas
createHandVisualization_clamped(landmarks, width, height) ==
  IF Len(landmarks) = 0 THEN <<>>
  ELSE
    LET xs == [k \in 1..Len(landmarks) |-> landmarks[k].x]
        ys == [k \in 1..Len(landmarks) |-> landmarks[k].y]
        offsetX2 == (width - (MaxOf(xs) - MinOf(xs))) - 2 * MinOf(xs)
        offsetY2 == (height - (MaxOf(ys) - MinOf(ys))) - 2 * MinOf(ys)
        clamp(v, hi) == IF v < 0 THEN 0 ELSE IF v > hi THEN hi ELSE v
    IN [k \in 1..Len(landmarks) |->
          [x |-> clamp(2 * landmarks[k].x + offsetX2, 2 * (width - 1)),
           y |-> clamp(2 * landmarks[k].y + offsetY2, 2 * (height - 1)),
           z |-> landmarks[k].z]]

\* a visualization that draws the landmarks where they are
createHandVisualization_noOffset(landmarks, width, height) ==
  [k \in 1..Len(landmarks) |->
     [x |-> 2 * landmarks[k].x, y |-> 2 * landmarks[k].y, z |-> landmarks[k].z]]

\* adjustedLandmarks of createHandVisualization, every coordinate doubled so
\* that the halves of (width - handWidth) / 2 stay integers; z is copied
createHandVisualization(landmarks, width, height) ==
  IF Len(landmarks) = 0 THEN <<>>
  ELSE
    LET xs == [k \in 1..Len(landmarks) |-> landmarks[k].x]
        ys == [k \in 1..Len(landmarks) |-> landmarks[k].y]
        minX == MinOf(xs)
        maxX == MaxOf(xs)
        minY == MinOf(ys)
        maxY == MaxOf(ys)
        handWidth == maxX - minX
        handHeight == maxY - minY
        offsetX2 == (width - handWidth) - 2 * minX
        offsetY2 == (height - handHeight) - 2 * minY
    IN [k \in 1..Len(landmarks) |->
          [x |-> 2 * landmarks[k].x + offsetX2,
           y |-> 2 * landmarks[k].y + offsetY2,
           z |-> landmarks[k].z]]

\* landmark arrays handed to predict, in pixels of the 640x480 frame: the four
\* fingers stand side by side, each stretched (up) or folded, the thumb tip
\* and the wrist are placed freely
Point(px, py) == [x |-> px, y |-> py, z |-> 0]
Finger(px, baseY, pipY, up) ==
  << Point(px, baseY), Point(px, pipY),
     Point(px, IF up THEN pipY - 40 ELSE pipY + 15),
     Point(px, IF up THEN pipY - 80 ELSE pipY + 30) >>
HandShape(up, thumbX, thumbY, wristX) ==
  << Point(wristX, 300), Point(90, 280), Point(80, 260), Point(70, 240),
     Point(thumbX, thumbY) >>
    \o Finger(100, 225, 200, up[1]) \o Finger(140, 225, 200, up[2])
    \o Finger(180, 225, 200, up[3]) \o Finger(220, 240, 220, up[4])
FullHands ==
  {HandShape(up, thumbX, thumbY, wristX) :
     up \in [1..4 -> BOOLEAN], thumbX \in {60, 120, 160, 200, 260},
     thumbY \in {100, 210, 260}, wristX \in {160, 300}}
\* all 21 landmarks at one place
DegenerateHands == {[k \in 1..21 |-> Point(c, c)] : c \in {0, 240}}
\* arrays that lost their tail
ShortHands ==
  {SubSeq(HandShape([f \in 1..4 |-> TRUE], thumbX, thumbY, 160), 1, n) :
     thumbX \in {60, 260}, thumbY \in {100, 260}, n \in {0, 5, 20}}
\* hands close to the camera: three times the size, wider than the canvas
WideHands ==
  {[k \in 1..21 |->
      [x |-> 3 * HandShape([f \in 1..4 |-> TRUE], thumbX, thumbY, 160)[k].x,
       y |-> 3 * HandShape([f \in 1..4 |-> TRUE], thumbX, thumbY, 160)[k].y,
       z |-> 0 - k]] :
     thumbX \in {60, 260}, thumbY \in {100, 260}}
LandmarkInputs == FullHands \cup DegenerateHands \cup ShortHands \cup WideHands

\* what model.predict may answer: two groups stand out, or only one
Groups == 0..7
TwoPeaks(g1, g2) == [k \in 1..8 |-> IF k = g1 + 1 THEN 60 ELSE IF k = g2 + 1 THEN 28 ELSE 2]
OnePeak(g) == [k \in 1..8 |-> IF k = g + 1 THEN 100 ELSE 0]
\* two groups share the maximum
TiedPeaks(g1, g2) == [k \in 1..8 |-> IF k = g1 + 1 \/ k = g2 + 1 THEN 38 ELSE 4]
ProbabilityInputs ==
  {TwoPeaks(g1, g2) : g1 \in Groups, g2 \in Groups} \cup {OnePeak(g) : g \in Groups}
    \cup {TiedPeaks(0, 3), TiedPeaks(0, 7), TiedPeaks(3, 7)}

\* a model object whose load has succeeded, and the landmarks of one call
InitPipeline ==
  /\ model = "LayersModel" /\ isLoaded = TRUE /\ loadingPromise = "fulfilled"
  /\ loadPc = "done" /\ loadError = "" /\ loadsStarted = 1
  /\ InitHook
  /\ inLandmarks \in LandmarkInputs
  /\ inProbabilities = <<>> /\ outAdjusted = <<>>
  /\ outPrediction = NoOutcome /\ purePc = "input"

ProgramUnchanged ==
  UNCHANGED <<modelVars, stateVars, refVars, propVars, envVars, histVars, appVars>>

\* const imageData = this.createHandVisualization(landmarks)
Visualize ==
  /\ purePc = "input"
  /\ outAdjusted' = createHandVisualization(inLandmarks, CanvasWidth, CanvasHeight)
  /\ purePc' = "drawn"
  /\ UNCHANGED <<inLandmarks, inProbabilities, outPrediction>>
  /\ ProgramUnchanged

\* await this.model.predict(tensor); await prediction.data(): the classifier
\* is invoked on the image and answers, or something in between throws
Classify ==
  /\ purePc = "drawn"
  /\ \E classifierThrows \in BOOLEAN, probabilities \in ProbabilityInputs :
       IF classifierThrows
       THEN /\ outPrediction' = predict(isModelLoaded /\ model # "null", TRUE, probabilities, inLandmarks)
            /\ purePc' = "done"
            /\ UNCHANGED inProbabilities
       ELSE /\ inProbabilities' = probabilities
            /\ purePc' = "classified"
            /\ UNCHANGED outPrediction
  /\ UNCHANGED <<inLandmarks, outAdjusted>>
  /\ ProgramUnchanged

\* const result = this.postProcessPrediction(probabilities, landmarks);
\* return result, or the catch block's empty result
PostProcess ==
  /\ purePc = "classified"
  /\ outPrediction' = predict(isModelLoaded /\ model # "null", FALSE, inProbabilities,
                               inLandmarks)
  /\ inProbabilities' = probabilitiesAfterPostProcess(inProbabilities)
  /\ purePc' = "done"
  /\ UNCHANGED <<inLandmarks, outAdjusted>>
  /\ ProgramUnchanged

NextPipeline == Visualize \/ Classify \/ PostProcess

SpecPipeline == InitPipeline /\ [][NextPipeline]_vars

\* ========================================================================
\* Properties
\* ========================================================================
Settled(c) == callerState[c] \in {"resolved", "rejected"}

\* C1: however many callers call loadModel, and whenever they call, at most
\* one underlying load (doLoadModel) is ever started, exactly one once any
\* caller has called, and all callers whose await has resumed observed the
\* same outcome: all resolved, or all rejected with the same error, the one
\* the single load ended with.
C1_LoadIsIdempotent ==
  /\ loadsStarted <= 1
  /\ (\E c \in Callers : callerState[c] # "idle") => loadsStarted = 1
  /\ \A c \in Callers :
       Settled(c) =>
         /\ callerState[c] = (IF loadingPromise = "fulfilled" THEN "resolved" ELSE "rejected")
         /\ callerError[c] = loadError
  /\ \A c, d \in Callers :
       Settled(c) /\ Settled(d) =>
         callerState[c] = callerState[d] /\ callerError[c] = callerError[d]

\* every caller has called while the one load is still pending
C1_Witness ==
  /\ loadingPromise = "pending"
  /\ \A c \in Callers : callerState[c] = "awaiting"
  /\ loadsStarted = 1

\* all callers were rejected with the same error by the one load
C1_WitnessRejected ==
  /\ \A c \in Callers : callerState[c] = "rejected" /\ callerError[c] = "LoadLayersFailed"
  /\ loadsStarted = 1

\* C7: a predict call made while loadModel has not completed successfully
\* (never called, still pending, or rejected) is rejected with 'Model not
\* loaded' and does not reach the classifier; and the model reports loaded
\* only after a successful load.
C7_PredictRefusedUntilLoaded ==
  /\ (lastPredict.called /\ lastPredict.promise # "fulfilled") =>
       /\ lastPredict.kind = "rejected"
       /\ lastPredict.error = "Model not loaded"
       /\ ~lastPredict.invoked
  /\ isModelLoaded => loadingPromise = "fulfilled"
  /\ loadingPromise # "fulfilled" => inflight = {}

\* predict was called after a failed load and refused
C7_Witness ==
  /\ lastPredict.called
  /\ lastPredict.promise = "rejected"
  /\ lastPredict.error = "Model not loaded"

C7_WitnessPending == lastPredict.called /\ lastPredict.promise = "pending"
C7_WitnessBeforeLoad == lastPredict.called /\ lastPredict.promise = "null"

\* C8 (as claimed): a loadModel call made after the load has rejected starts
\* a fresh underlying load.
C8_RetriggerStartsFreshLoad ==
  [][(loadingPromise = "rejected"
      /\ \E c \in Callers : callerState[c] = "idle" /\ callerState'[c] = "awaiting")
     => loadsStarted' = loadsStarted + 1]_vars

\* what the code does instead: after a rejection nothing ever starts a load
\* again and the model stays not loaded
C8_RejectionIsPermanent ==
  [][loadingPromise = "rejected" =>
       /\ loadingPromise' = "rejected"
       /\ loadsStarted' = loadsStarted
       /\ ~isModelLoaded']_vars


PublishStep == log' # log
NoHandStep == isProcessingRef /\ ~isProcessingRef' /\ lastResults' = "noHand"

\* C2 (as claimed): with the model loaded, the landmarks that a pending
\* settle timer will classify are those of the last hand frame received in
\* its settle window, and no timer publishes more than one event.
C2_BurstClassifiesLastFrame ==
  /\ isModelLoaded => \A t \in timers : now <= t.due => t.lm = handResults
  /\ \A i, j \in 1..Len(log) : i # j => log[i] # log[j]

\* C3 (as claimed): while the session is inactive no settle timer is pending
\* and the published state is reset.
C3_InactiveIsQuiet ==
  ~isActive => (timers = {} /\ currentCharacter = "" /\ confidence = 0)

\* C4 (as claimed): at most one predict call started by the hook is in flight.
C4_OnePredictInFlight ==
  Cardinality({p \in inflight : p.owner = "timer"}) <= 1

\* C5: a frame without a hand sets handResults to null, currentCharacter to
\* '' and confidence to 0 and leaves no settle timer pending, so no callback
\* of a timer armed before it can run; and while handResults is null no timer
\* is pending.
C5_NoHandClears ==
  [][/\ NoHandStep =>
          /\ handResults' = NoHand
          /\ currentCharacter' = ""
          /\ confidence' = 0
          /\ timers' = {}
     /\ handResults' = NoHand => timers' = {}]_vars

\* a no-hand frame has cancelled a timer that was still inside its settle delay
C5_Witness ==
  /\ lastResults = "noHand"
  /\ predictionTimeoutRef # 0
  /\ now < lastPredictionTime + SettleMs
  /\ timers = {}
  /\ handResults = NoHand

\* C6: when a timer callback publishes, a result with confidence below 0.3
\* is published as '' and 0, a result with confidence above 0.3 and a
\* non-empty character is published unchanged, and a published letter never
\* has a confidence below the floor.
C6_ConfidenceFloor ==
  [][/\ PublishStep =>
          LET r == lastPublish'.outcome.result
          IN /\ r.confidence < ConfidenceFloor =>
                  currentCharacter' = "" /\ confidence' = 0
             /\ (r.confidence > ConfidenceFloor /\ r.character # "") =>
                  currentCharacter' = r.character /\ confidence' = r.confidence
     /\ currentCharacter' # "" => confidence' >= ConfidenceFloor]_vars

\* a letter predicted with confidence 0.29 was published as '' and 0
C6_Witness ==
  /\ log # <<>>
  /\ lastPublish.outcome.result.character # ""
  /\ lastPublish.outcome.result.confidence = 29
  /\ currentCharacter = "" /\ confidence = 0
  /\ handResults # NoHand

C6_WitnessAbove ==
  /\ log # <<>>
  /\ lastPublish.outcome.result.confidence = 31
  /\ currentCharacter = lastPublish.outcome.result.character /\ confidence = 31
  /\ currentCharacter # ""

\* C9: a failed load leaves the model not loaded and is surfaced as state:
\* once initializeSystem has finished after a rejection the hook has
\* isModelLoaded false, a non-empty modelError and isInitializing false, and
\* hand tracking is set up unless its own initialization failed; after a
\* successful load isModelLoaded is true and modelError is '' unless hand
\* tracking or the camera failed; and after a rejection isInitializing
\* eventually becomes false.
C9_StateAfterLoad ==
  /\ loadingPromise = "rejected" => ~isModelLoaded
  /\ (initPc = "done" /\ loadingPromise = "rejected") =>
       /\ callerState[HOOK] = "rejected"
       /\ ~hookIsModelLoaded
       /\ modelError # ""
       /\ ~isInitializing
  /\ (initPc = "done" /\ modelError = "Model loading failed") => handsRef
  /\ (initPc = "done" /\ loadingPromise = "fulfilled") =>
       /\ isModelLoaded /\ hookIsModelLoaded
       /\ ~isInitializing
       /\ (handsRef /\ modelError # "Camera error") => modelError = ""

C9_LoadFailureIsState ==
  /\ []C9_StateAfterLoad
  /\ (loadingPromise = "rejected") ~> (~isInitializing /\ modelError # "")

\* the load failed, the hook reports it, and the camera runs all the same
C9_Witness ==
  /\ initPc = "done" /\ loadingPromise = "rejected"
  /\ modelError = "Model loading failed"
  /\ ~hookIsModelLoaded /\ ~isInitializing
  /\ handsRef /\ cameraRef

C9_WitnessSuccess ==
  initPc = "done" /\ hookIsModelLoaded /\ modelError = "" /\ cameraRef

\* C10: when the classification behind a published event failed (an
\* exception inside predict, or predict rejecting), predict resolved to
\* {character: '', confidence: 0} or the callback caught the rejection, the
\* published state is '' and 0, and no exception ever leaves a timer callback
\* or the frame loop.
C10_FailureIsEmptyResult ==
  [][/\ (PublishStep /\ (lastPublish'.outcome.failed \/ lastPublish'.outcome.kind = "rejected")) =>
          /\ lastPublish'.outcome.kind = "resolved" => lastPublish'.outcome.result = EmptyResult
          /\ currentCharacter' = ""
          /\ confidence' = 0
     /\ ~uncaught']_vars

\* a failed classification replaced a published letter by the empty result
C10_Witness ==
  /\ Len(log) >= 2
  /\ lastPublish.outcome.failed
  /\ lastPublish.id = log[Len(log)]
  /\ currentCharacter = "" /\ confidence = 0
  /\ handResults # NoHand

\* C11: when predict is called with fewer than 21 landmarks, the classifier
\* (model.predict) is not invoked, and the promise resolves to
\* {character: '', confidence: 0}.
C11_ShortInputSkipsClassifier ==
  Len(inLandmarks) < 21 =>
    /\ purePc # "classified"
    /\ purePc = "done" =>
         outPrediction.kind = "resolved" /\ outPrediction.result = EmptyResult

\* C12: events are published in the order in which the settle timers behind
\* them fired: of two published events, the one published first comes from
\* the timer that fired first.
C12_PublishedInFiringOrder ==
  \A i, j \in 1..Len(log) :
    i < j => \E a, b \in 1..Len(fired) : a < b /\ fired[a] = log[i] /\ fired[b] = log[j]

\* coordinates of the landmarks given to predict, by the code's 0-based index
X(i) == inLandmarks[i + 1].x
Y(i) == inLandmarks[i + 1].y
Returned == outPrediction.result.character
PostProcessed ==
  purePc = "done" /\ ~outPrediction.failed /\ Len(inLandmarks) = 21
TopTwoIs(g1, g2) ==
  /\ \A k \in 1..8 : inProbabilities[k] <= inProbabilities[g1 + 1]
  /\ \A k \in 1..g1 : inProbabilities[k] < inProbabilities[g1 + 1]
  /\ \A k \in 1..8 : k # g1 + 1 => inProbabilities[k] <= inProbabilities[g2 + 1]
  /\ \A k \in 1..g2 : k # g1 + 1 => inProbabilities[k] < inProbabilities[g2 + 1]
  /\ g1 # g2
TipsAboveJoints == Y(8) < Y(6) /\ Y(12) < Y(10) /\ Y(16) < Y(14) /\ Y(20) < Y(18)
JointsAboveTips == Y(6) < Y(8) /\ Y(10) < Y(12) /\ Y(14) < Y(16) /\ Y(18) < Y(20)
ThumbLeftOfJoints == X(4) < X(6) /\ X(4) < X(10) /\ X(4) < X(14) /\ X(4) < X(18)
ThumbBelowTips == Y(4) > Y(8) /\ Y(4) > Y(12) /\ Y(4) > Y(16) /\ Y(4) > Y(20)
WristRightOfHand ==
  X(0) > X(8) /\ X(0) > X(4) /\ X(0) > X(12) /\ X(0) > X(16) /\ X(0) > X(20) /\ X(5) > X(4)
TestT == X(4) > X(6) /\ X(4) < X(10) /\ X(4) < X(14) /\ X(4) < X(18)
         /\ Y(4) < Y(14) /\ Y(4) < Y(18)
TestM == X(4) > X(6) /\ X(4) > X(10) /\ X(4) > X(14) /\ Y(4) < Y(18)
TestN == X(4) > X(6) /\ X(4) > X(10) /\ Y(4) < Y(18) /\ Y(4) < Y(14)

C13_WitnessA ==
  /\ PostProcessed /\ TopTwoIs(5, 2) /\ JointsAboveTips
  /\ ~WristRightOfHand /\ ThumbLeftOfJoints
  /\ Returned = "A"

\* ... and, with the wrist right of the hand, as a letter of group 2
C13_WitnessWrist ==
  /\ PostProcessed /\ TopTwoIs(5, 2) /\ JointsAboveTips
  /\ WristRightOfHand
  /\ Returned \in {"C", "O"}

\* the letters of each group
GroupLetters(g) ==
  CASE g = 0 -> {"A", "E", "M", "N", "S", "T"}
    [] g = 1 -> {"B", "D", "F", "I", "K", "R", "U", "V", "W"}
    [] g = 2 -> {"C", "O"}
    [] g = 3 -> {"G", "H"}
    [] g = 4 -> {"L"}
    [] g = 5 -> {"P", "Q", "Z"}
    [] g = 6 -> {"X"}
    [] g = 7 -> {"J", "Y"}

\* C14: for every group g in 0..7 and every array of 21 landmarks,
\* indexToCharacter(g, pts) is a letter of group g, never '' and never a
\* letter of another group; so predict on a loaded model, with 21 landmarks
\* and no exception in the classifier, never returns an empty character.
C14_Exhaustive ==
  Len(inLandmarks) = 21 =>
    /\ \A g \in Groups : indexToCharacter(g, inLandmarks) \in GroupLetters(g)
    /\ PostProcessed =>
         /\ Returned # ""
         /\ \E g \in Groups : Returned \in GroupLetters(g)

\* group 1 fell through to its default letter
C14_Witness ==
  /\ PostProcessed /\ Returned = "B"
  /\ ~TipsAboveJoints

AllIdentical ==
  Len(inLandmarks) = 21 /\ \A k \in 1..21 : inLandmarks[k] = inLandmarks[1]
\* the classifier's top group: the first index that holds the maximum
TopGroup ==
  CHOOSE g \in Groups :
    /\ \A k \in 1..8 : inProbabilities[k] <= inProbabilities[g + 1]
    /\ \A k \in 1..g : inProbabilities[k] < inProbabilities[g + 1]
DefaultLetter(g) ==
  CASE g = 0 -> "S" [] g = 1 -> "B" [] g = 2 -> "O" [] g = 3 -> "H"
    [] g = 4 -> "L" [] g = 5 -> "P" [] g = 6 -> "X" [] g = 7 -> "J"

\* C15: for 21 identical landmarks and any answer of the classifier,
\* postProcessPrediction does not throw, no override rule fires, and the
\* letter is the default of the classifier's top group: S, B, O, H, L, P, X, J
\* for groups 0..7.
C15_DegenerateGivesDefault ==
  (AllIdentical /\ purePc = "done" /\ inProbabilities # <<>>) =>
    /\ outPrediction.kind = "resolved" /\ ~outPrediction.failed
    /\ Returned = DefaultLetter(TopGroup)

\* identical landmarks with a top-2 pair listed by an override rule
C15_Witness ==
  /\ AllIdentical /\ purePc = "done" /\ inProbabilities # <<>>
  /\ TopTwoIs(5, 2)
  /\ Returned = "P"

\* identical landmarks in a group that measures a distance
C15_WitnessDistance ==
  /\ AllIdentical /\ purePc = "done" /\ inProbabilities # <<>>
  /\ Returned = "J"

AdjustedXs == [k \in 1..Len(outAdjusted) |-> outAdjusted[k].x]
AdjustedYs == [k \in 1..Len(outAdjusted) |-> outAdjusted[k].y]
InputXs == [k \in 1..Len(inLandmarks) |-> inLandmarks[k].x]
InputYs == [k \in 1..Len(inLandmarks) |-> inLandmarks[k].y]
FitsCanvas ==
  /\ Len(inLandmarks) > 0
  /\ MaxOf(InputXs) - MinOf(InputXs) <= CanvasWidth
  /\ MaxOf(InputYs) - MinOf(InputYs) <= CanvasHeight
Translate(landmarks, v) ==
  [k \in 1..Len(landmarks) |->
     [x |-> landmarks[k].x + v[1], y |-> landmarks[k].y + v[2], z |-> landmarks[k].z]]
Shifts == {<<7, 0>>, <<-50, 31>>, <<123, -77>>}

\* C16: for landmarks whose bounding box fits the canvas, the bounding box
\* of the adjusted landmarks is centred at (width/2, height/2) (in doubled
\* coordinates: min + max is twice the canvas size), and translating all
\* input landmarks by a common vector gives the same adjusted landmarks.
C16_Centered ==
  (purePc # "input" /\ FitsCanvas) =>
    /\ MinOf(AdjustedXs) + MaxOf(AdjustedXs) = 2 * CanvasWidth
    /\ MinOf(AdjustedYs) + MaxOf(AdjustedYs) = 2 * CanvasHeight
    /\ \A v \in Shifts :
         createHandVisualization(Translate(inLandmarks, v), CanvasWidth, CanvasHeight)
           = outAdjusted

\* a hand that was not centred in the frame has been moved
C16_Witness ==
  /\ purePc = "drawn" /\ FitsCanvas /\ ~AllIdentical /\ Len(inLandmarks) = 21
  /\ outAdjusted[1].x # 2 * inLandmarks[1].x
  /\ outAdjusted[1].y # 2 * inLandmarks[1].y

\* a settle timer's callback runs in this step
TimerFireStep == fired' # fired

\* C17: a timer callback that runs while the model is not loaded calls no
\* predict and publishes nothing; every predict call a callback has in flight
\* was made on a loaded model, and no published outcome is the rejection
\* 'Model not loaded'.
C17_NoPredictUntilLoaded ==
  [][/\ (TimerFireStep /\ ~isModelLoaded) =>
          UNCHANGED <<inflight, log, lastPublish, currentCharacter, confidence>>
     /\ \A p \in inflight' : p.owner = "timer" => isModelLoaded'
     /\ lastPublish'.outcome.kind # "rejected"]_vars

\* the load failed, a hand frame armed a timer, and its callback has run
C17_Witness ==
  /\ loadingPromise = "rejected" /\ ~isModelLoaded
  /\ Len(fired) >= 1
  /\ log = <<>> /\ inflight = {}
  /\ handResults # NoHand

\* C18: the re-entrancy guard is held only while a send is in flight, and
\* once set it is released again: whenever handsRef.send settles, by
\* resolving or by throwing, isProcessingRef is false afterwards.
C18_GuardReleased ==
  /\ [](isProcessingRef => sendInFlight)
  /\ isProcessingRef ~> ~isProcessingRef

\* a send threw and the guard is free for the next frame
C18_Witness ==
  /\ lastResults = "throws"
  /\ ~isProcessingRef /\ ~sendInFlight
  /\ cameraRef /\ handsRef

\* a frame is being processed after an earlier send threw
C18_WitnessNextFrame ==
  /\ lastResults = "throws"
  /\ isProcessingRef /\ sendInFlight

\* handsRef.send settles in this step with a hand in the frame
HandStep == sendInFlight /\ ~sendInFlight' /\ lastResults' = "hand"

\* C19: every hand frame that arrives while a settle timer is pending
\* cancels that timer and arms a new one, due one settle delay later, that
\* carries the new frame's landmarks.
C19_FrameReschedules ==
  [][(HandStep /\ timers # {}) =>
       /\ timers' \cap timers = {}
       /\ \E t \in timers' : t.lm = handResults' /\ t.due = now + SettleMs]_vars

\* the frame of this step schedules a classification
Armed == nextTimerId' = nextTimerId + 1 /\ predictionTimeoutRef' = nextTimerId

\* C20 as stated: the first hand frame after a no-hand frame always
\* schedules a classification, however little time has passed since the
\* last one was scheduled.
C20_FirstFrameAlwaysSchedules ==
  [][(HandStep /\ lastResults = "noHand") => Armed]_vars

\* C20, amended: a hand frame schedules a classification exactly when more
\* than 500 ms have passed since the last one was scheduled, whether or not
\* a no-hand frame came in between.
C20_ThrottleSchedules ==
  [][HandStep => (Armed <=> now - lastPredictionTime > ThrottleMs)]_vars

\* a no-hand frame cancelled the pending timer, a hand frame followed within
\* the throttle interval, and no classification is scheduled
C20_Witness ==
  /\ lastResults = "hand" /\ handResults # NoHand
  /\ predictionTimeoutRef # 0
  /\ timers = {}
  /\ \A k \in 1..Len(fired) : fired[k] # predictionTimeoutRef
  /\ now - lastPredictionTime <= ThrottleMs

\* a second classification was scheduled once the interval had passed
C20_WitnessTracking ==
  /\ lastResults = "hand"
  /\ predictionTimeoutRef = 2
  /\ lastPredictionTime = now
  /\ \E t \in timers : t.id = 2

\* a settle timer is armed in this step
ArmStep == nextTimerId' # nextTimerId
NoRepeats(s) == \A i, j \in 1..Len(s) : i # j => s[i] # s[j]

\* C21: a settle timer is armed only when more than 500 ms have passed since
\* the previous arming (lastPredictionTime is the time of the last arming);
\* each armed timer runs its callback at most once and publishes at most one
\* event; a hand frame within 500 ms of the last arming starts nothing and
\* leaves the published character alone.
C21_Throttle ==
  [][/\ ArmStep => (now - lastPredictionTime > ThrottleMs /\ lastPredictionTime' = now)
     /\ ~ArmStep => lastPredictionTime' = lastPredictionTime
     /\ NoRepeats(fired') /\ NoRepeats(log')
     /\ \A i \in 1..Len(log') : \E k \in 1..Len(fired') : fired'[k] = log'[i]
     /\ (HandStep /\ now - lastPredictionTime <= ThrottleMs) =>
          UNCHANGED <<timers, inflight, fired, log, currentCharacter, confidence>>]_vars

\* two armings, each with its one published event, and a hand frame that
\* came within 500 ms of the second arming
C21_Witness ==
  /\ Len(log) = 2 /\ log[1] # log[2]
  /\ nextTimerId = 3 /\ timers = {} /\ inflight = {}
  /\ lastResults = "hand" /\ now > lastPredictionTime
  /\ now - lastPredictionTime <= ThrottleMs

\* the classifier's second group: the first index that holds the maximum
\* once the top entry is set to 0
SecondGroup ==
  LET zeroed == [inProbabilities EXCEPT ![TopGroup + 1] = 0]
  IN CHOOSE g \in Groups :
       /\ \A k \in 1..8 : zeroed[k] <= zeroed[g + 1]
       /\ \A k \in 1..g : zeroed[k] < zeroed[g + 1]
FistRuleMatches == <<TopGroup, SecondGroup>> \in aemnstConditions /\ JointsAboveTips
ThumbRuleMatches == <<TopGroup, SecondGroup>> \in osConditions /\ X(5) < X(4)
WristRuleMatches == <<TopGroup, SecondGroup>> \in c0Conditions /\ WristRightOfHand

\* C22 as stated: when both the first rule (A/E/M/N/S/T) and the third rule
\* (wrist) match, the group is the one the first rule assigns, 0.
C22_FirstMatchWins ==
  (PostProcessed /\ FistRuleMatches /\ WristRuleMatches) =>
    Returned \in GroupLetters(0)

\* C22, amended: the rules are applied in the order A/E/M/N/S/T, O/S, wrist,
\* each on the original pair, and the group returned is the one assigned by
\* the last rule that matches; without a match it is the top group.
C22_LastMatchWins ==
  PostProcessed =>
    Returned \in GroupLetters(IF WristRuleMatches THEN 2
                              ELSE IF ThumbRuleMatches THEN 0
                              ELSE IF FistRuleMatches THEN 0
                              ELSE TopGroup)

\* the first and the third rule both matched, and the third decided
C22_Witness ==
  /\ PostProcessed /\ FistRuleMatches /\ WristRuleMatches
  /\ Returned = "C"

PostProcessStep == purePc = "classified" /\ purePc' = "done"

\* C23: g1 is the lowest index that holds the maximum of the 8
\* probabilities, g2 the lowest index that holds the maximum once entry g1 is
\* set to 0, and the array given to postProcessPrediction is the same after
\* the call.
C23_TopTwoLowestIndex ==
  [][PostProcessStep =>
       /\ topTwo(inProbabilities) = <<TopGroup, SecondGroup>>
       /\ inProbabilities' = inProbabilities]_vars

\* two groups tied for the maximum and the lower index became g1, the higher g2
C23_Witness ==
  /\ purePc = "done" /\ inProbabilities # <<>> /\ Len(inLandmarks) = 21
  /\ inProbabilities[1] = inProbabilities[8]
  /\ TopGroup = 0 /\ SecondGroup = 7
  /\ outPrediction.result.confidence = inProbabilities[1]

\* C24: the adjusted landmarks are the raw ones moved by one common vector:
\* for every two landmarks the x- and y-differences are the same before and
\* after (doubled here, as the adjusted coordinates are), and every z is
\* unchanged, also for a hand wider or taller than the canvas.
C24_PureTranslation ==
  (purePc # "input" /\ Len(inLandmarks) > 0) =>
    /\ Len(outAdjusted) = Len(inLandmarks)
    /\ \A i, j \in 1..Len(inLandmarks) :
         /\ outAdjusted[i].x - outAdjusted[j].x = 2 * (inLandmarks[i].x - inLandmarks[j].x)
         /\ outAdjusted[i].y - outAdjusted[j].y = 2 * (inLandmarks[i].y - inLandmarks[j].y)
         /\ outAdjusted[i].z = inLandmarks[i].z

\* a hand wider than the canvas was drawn partly outside of it
C24_Witness ==
  /\ purePc = "drawn" /\ Len(inLandmarks) = 21 /\ ~FitsCanvas
  /\ \E k \in 1..21 : outAdjusted[k].x < 0
  /\ \E k \in 1..21 : outAdjusted[k].z # 0

\* C25: every adjusted landmark lies on the canvas, x in [0, width - 1] and
\* y in [0, height - 1] (doubled here), also for a hand whose bounding box
\* exceeds the canvas.
C25_Clamped ==
  (purePc # "input" /\ Len(inLandmarks) > 0) =>
    \A k \in 1..Len(outAdjusted) :
      /\ 0 <= outAdjusted[k].x /\ outAdjusted[k].x <= 2 * (CanvasWidth - 1)
      /\ 0 <= outAdjusted[k].y /\ outAdjusted[k].y <= 2 * (CanvasHeight - 1)

\* C26: while the last processed frame is a no-hand frame (no hand frame has
\* come since), currentCharacter is '' and confidence is 0: nothing armed
\* before the hand disappeared publishes a letter afterwards.
C26_NoStalePublication ==
  handResults = NoHand => (currentCharacter = "" /\ confidence = 0)

\* C27: whenever the hook's currentCharacter is '' with confidence 0, the
\* currentCharacter and confidence of App are '' and 0 too.
C27_EmptyReachesApp ==
  (currentCharacter = "" /\ confidence = 0) =>
    (appCurrentCharacter = "" /\ appConfidence = 0)

\* C28: the confidence returned is the classifier's probability of its top
\* group, also when a rule has moved the letter to another group.
C28_ConfidenceOfTopGroup ==
  PostProcessed => outPrediction.result.confidence = inProbabilities[TopGroup + 1]

\* the top group was 5, the letter is one of group 0, the confidence is the
\* one of group 5
C28_Witness ==
  /\ PostProcessed /\ FistRuleMatches /\ ~WristRuleMatches
  /\ TopGroup = 5
  /\ Returned \in GroupLetters(0)
  /\ outPrediction.result.confidence = inProbabilities[6]
  /\ inProbabilities[6] # inProbabilities[1]

Classified == purePc = "done" /\ inProbabilities # <<>>
OnlyFirstNonZero == \A k \in 2..8 : inProbabilities[k] = 0

\* C29 as stated: for every probability vector, one-hot ones included, the
\* pair (g1, g2) computed by postProcessPrediction has g1 # g2.
C29_TopTwoDistinct ==
  Classified => topTwo(inProbabilities)[1] # topTwo(inProbabilities)[2]

\* C29, amended: g1 # g2 unless entry 0 is the only non-zero probability;
\* then, with entry 0 set to 0, the first index that holds the maximum 0 is
\* 0 again, and the pair is (0, 0).
C29_DistinctUnlessOnlyFirst ==
  Classified =>
    /\ topTwo(inProbabilities)[1] = topTwo(inProbabilities)[2] <=> OnlyFirstNonZero
    /\ OnlyFirstNonZero => topTwo(inProbabilities) = <<0, 0>>

\* the classifier answered (1, 0, ..., 0): the pair (0, 0) matched the
\* wrist rule and the letter came from group 2
C29_Witness ==
  /\ PostProcessed /\ OnlyFirstNonZero /\ inProbabilities[1] > 0
  /\ topTwo(inProbabilities) = <<0, 0>>
  /\ WristRightOfHand
  /\ Returned \in GroupLetters(2)

\* a one-hot answer elsewhere gives two different groups
C29_WitnessOneHot ==
  /\ PostProcessed /\ inProbabilities[4] = 100
  /\ topTwo(inProbabilities) = <<3, 0>>

Letters == {"A", "B", "C", "D", "E", "F", "G", "H", "I", "J", "K", "L", "M",
            "N", "O", "P", "Q", "R", "S", "T", "U", "V", "W", "X", "Y", "Z"}
\* some group and some array of 21 landmarks give the letter
Covered(letter) ==
  \E g \in Groups, pts \in FullHands : indexToCharacter(g, pts) = letter

\* C30: for every letter A..Z there are a group and a 21-landmark array for
\* which indexToCharacter returns it, K, R, U, V, W of group 1 and A, T, E,
\* M, N of group 0 included.
C30_AllLettersCovered ==
  isModelLoaded => \A letter \in Letters : Covered(letter)


====
